---- MODULE Spec2Model ----
(***************************************************************************)
(* Schema inference of diesel: the connection resolver and the per-table   *)
(* catalog wrappers of diesel_infer_schema/src/inference.rs, and the       *)
(* infer_schema! expansion of diesel_codegen/src/schema_inference.rs.      *)
(***************************************************************************)
EXTENDS Integers, Sequences, FiniteSets, TLC

VARIABLES
    features,      \* the backends compiled in (cargo features)
    database_url,  \* the connection string, a sequence of characters
    schema_name,   \* Option<&str>: NoSchema or a schema name
    pc,            \* position of derive_infer_schema
    open,          \* the connections currently alive
    calls,         \* number of establish_connection calls so far
    attempts,      \* backends Conn::establish was called on, in order
    queries,       \* catalog queries issued, in order
    table_names,   \* result of load_table_names
    foreign_keys,  \* result of load_foreign_key_constraints
    output,        \* tokens returned to the compiler: <<>> or <<tokens>>
    panic,         \* the panic that aborted the expansion, or NoPanic
    tconn,         \* per-table calls: the connection's backend
    ttable,        \* per-table calls: the table inspected
    tcall,         \* per-table calls: the function called, or "none"
    tanswer,       \* per-table calls: what the backend adapter answered
    tresult,       \* per-table calls: what the function returned
    tqueries       \* per-table calls: adapter queries issued, in order

runVars == <<pc, open, calls, attempts, queries, table_names, foreign_keys,
             output, panic>>
envVars == <<features, database_url, schema_name>>
tableVars == <<tconn, ttable, tcall, tanswer, tresult, tqueries>>
vars == <<features, database_url, schema_name, pc, open, calls, attempts,
          queries, table_names, foreign_keys, output, panic, tconn, ttable,
          tcall, tanswer, tresult, tqueries>>

----------------------------------------------------------------------------
(* Strings are sequences of one-character strings.                         *)

PostgresPrefix == <<"p","o","s","t","g","r","e","s",":","/","/">>
PostgresqlPrefix == <<"p","o","s","t","g","r","e","s","q","l",":","/","/">>
MysqlPrefix == <<"m","y","s","q","l",":","/","/">>

\* str::starts_with
starts_with(s, prefix) ==
    /\ Len(s) >= Len(prefix)
    /\ SubSeq(s, 1, Len(prefix)) = prefix

\* The connection strings explored.
Urls ==
    { PostgresPrefix \o <<"h">>,
      PostgresqlPrefix \o <<"h">>,
      MysqlPrefix \o <<"h">>,
      <<"d","b",".","s","q","l","i","t","e">>,
      <<>>,
      <<"p","o","s","t","g","r","e","s",":","/","h">>,
      <<"m","y","s","q","l",":">>,
      <<"M","Y","S","Q","L",":","/","/","h">> }

Backends == {"sqlite", "postgres", "mysql"}

\* Every build has at least one backend: with none the match has no arm.
FeatureSets == (SUBSET Backends) \ {{}}

NoSchema == "None"
SchemaNames == {NoSchema, "app"}

\* Result<T, Box<Error>>
Ok(v) == [ok |-> TRUE, val |-> <<v>>, err |-> "none"]
Err(e) == [ok |-> FALSE, val |-> <<>>, err |-> e]

\* establish_real_connection: Conn::establish and the mapped error
establish_real_connection(variant, connectable) ==
    IF connectable THEN Ok(variant) ELSE Err("Failed to establish a database connection")

\* The arm of establish_connection's match that a build with `feats` takes.
match_arm_sqlite_first(feats, url) ==
    IF "sqlite" \in feats THEN "Sqlite"
    ELSE IF "postgres" \in feats
            /\ (starts_with(url, PostgresPrefix) \/ starts_with(url, PostgresqlPrefix))
    THEN "Pg"
    ELSE IF "mysql" \in feats /\ starts_with(url, MysqlPrefix)
    THEN "Mysql"
    ELSE IF "postgres" \in feats THEN "not a valid PG database URL"
    ELSE "not a valid MySQL database URL"

match_arm_no_fallback(feats, url) ==
    IF "postgres" \in feats
       /\ (starts_with(url, PostgresPrefix) \/ starts_with(url, PostgresqlPrefix))
    THEN "Pg"
    ELSE IF "mysql" \in feats /\ starts_with(url, MysqlPrefix)
    THEN "Mysql"
    ELSE IF "postgres" \in feats THEN "not a valid PG database URL"
    ELSE IF "mysql" \in feats THEN "not a valid MySQL database URL"
    ELSE "Sqlite"

match_arm(feats, url) ==
    IF "postgres" \in feats
       /\ (starts_with(url, PostgresPrefix) \/ starts_with(url, PostgresqlPrefix))
    THEN "Pg"
    ELSE IF "mysql" \in feats /\ starts_with(url, MysqlPrefix)
    THEN "Mysql"
    ELSE IF "sqlite" \in feats THEN "Sqlite"
    ELSE IF "postgres" \in feats THEN "not a valid PG database URL"
    ELSE "not a valid MySQL database URL"

Variants == {"Sqlite", "Pg", "Mysql"}

\* establish_connection: Ok(InferConnection::variant) or Err(message)
establish_connection(feats, url, connectable) ==
    LET arm == match_arm(feats, url)
    IN  IF arm \in Variants
        THEN establish_real_connection(arm, connectable)
        ELSE Err(arm)

----------------------------------------------------------------------------
(* Catalog data.                                                           *)

MaxTables == 2
MaxFks == 2

TableNames == {"users", "posts", "archived"}

\* TableData::new(name, schema)
TableData(schema, name) == [schema |-> schema, name |-> name]

\* TableData's Display: the name, qualified by the schema when there is one
to_string(table) ==
    IF table.schema = NoSchema THEN <<table.name>>
    ELSE <<table.schema, ".", table.name>>

\* ForeignKeyConstraint { child_table, parent_table, foreign_key }
ForeignKeyConstraint(schema, child, parent) ==
    [child_table |-> TableData(schema, child),
     parent_table |-> TableData(schema, parent),
     foreign_key |-> <<parent, "_id">>]

SeqsUpTo(S, n) == UNION {[1..k -> S] : k \in 0..n}

NoDuplicates(s) == \A i, j \in 1..Len(s) : s[i] = s[j] => i = j

\* What a backend can answer to load_table_names(&c, schema_name)
TableLists(schema) ==
    {l \in SeqsUpTo({TableData(schema, n) : n \in TableNames}, MaxTables) :
        NoDuplicates(l)}

FkPairs ==
    {<<"posts", "users">>, <<"users", "users">>,
     <<"posts", "archived">>, <<"archived", "users">>}

\* What a backend can answer to load_foreign_key_constraints(&c, schema_name)
FkLists(schema) ==
    SeqsUpTo({ForeignKeyConstraint(schema, p[1], p[2]) : p \in FkPairs}, MaxFks)

QueryFailed == "catalog query failed"

TableAnswers(schema) == {Ok(l) : l \in TableLists(schema)} \cup {Err(QueryFailed)}
FkAnswers(schema) == {Ok(l) : l \in FkLists(schema)} \cup {Err(QueryFailed)}

----------------------------------------------------------------------------
(* derive_infer_schema, one action per step of its body.                   *)

NoPanic == [what |-> "none", url |-> <<>>, schema |-> NoSchema, cause |-> "none"]

\* error_message: what was being loaded, the url, and the schema if any
error_message(attempted_to_load, url, schema) ==
    [what |-> attempted_to_load, url |-> url, schema |-> schema]

\* Result::expect on an Err: the panic carrying the message and the error
expect_panic(message, error) ==
    [what |-> message.what, url |-> message.url, schema |-> message.schema,
     cause |-> error]

\* A connection variable going out of scope closes the connection.
drop_leaks(conns, c) == conns

drop(conns, c) == conns \ {c}

\* `let connection = try!(establish_connection(database_url))` of a load
\* function called from derive_infer_schema at position `at`.
Establish(at, next, what) ==
    /\ pc = at
    /\ \E connectable \in BOOLEAN :
         LET arm == match_arm(features, database_url)
             r == establish_connection(features, database_url, connectable)
         IN  /\ calls' = calls + 1
             /\ attempts' = IF arm \in Variants THEN Append(attempts, arm) ELSE attempts
             /\ IF r.ok
                THEN /\ open' = open \cup {[id |-> calls + 1, backend |-> r.val[1]]}
                     /\ pc' = next
                     /\ panic' = panic
                ELSE /\ open' = open
                     /\ pc' = "panicked"
                     /\ panic' = expect_panic(
                            error_message(what, database_url, schema_name), r.err)
    /\ UNCHANGED <<queries, table_names, foreign_keys, output>>
    /\ UNCHANGED envVars
    /\ UNCHANGED tableVars

\* load_table_names, line 21
LoadTableNames_Establish ==
    Establish("load_table_names", "table_names_query", "table names")

\* load_table_names, lines 23-31, and the expect of derive_infer_schema
LoadTableNames_Query_EmptyFails ==
    /\ pc = "table_names_query"
    /\ \E c \in open, answer \in TableAnswers(schema_name) :
         /\ queries' = Append(queries,
                [op |-> "load_table_names", conn |-> c.id, answer |-> answer])
         /\ open' = drop(open, c)
         /\ IF answer.ok /\ ~(schema_name # NoSchema /\ answer.val[1] = <<>>)
            THEN /\ table_names' = answer.val[1]
                 /\ pc' = "load_foreign_keys"
                 /\ panic' = panic
            ELSE /\ table_names' = table_names
                 /\ pc' = "panicked"
                 /\ panic' = expect_panic(
                        error_message("table names", database_url, schema_name),
                        IF answer.ok THEN "no tables in schema" ELSE answer.err)
    /\ UNCHANGED <<calls, attempts, foreign_keys, output>>
    /\ UNCHANGED envVars
    /\ UNCHANGED tableVars

LoadTableNames_Query ==
    /\ pc = "table_names_query"
    /\ \E c \in open, answer \in TableAnswers(schema_name) :
         /\ queries' = Append(queries,
                [op |-> "load_table_names", conn |-> c.id, answer |-> answer])
         /\ open' = drop(open, c)
         /\ IF answer.ok
            THEN /\ table_names' = answer.val[1]
                 /\ pc' = "load_foreign_keys"
                 /\ panic' = panic
            ELSE /\ table_names' = table_names
                 /\ pc' = "panicked"
                 /\ panic' = expect_panic(
                        error_message("table names", database_url, schema_name),
                        answer.err)
    /\ UNCHANGED <<calls, attempts, foreign_keys, output>>
    /\ UNCHANGED envVars
    /\ UNCHANGED tableVars

\* load_foreign_key_constraints, line 137
LoadForeignKeys_Reuse ==
    /\ pc = "load_foreign_keys"
    /\ pc' = "foreign_keys_query"
    /\ open' = {[id |-> calls, backend |-> match_arm(features, database_url)]}
    /\ UNCHANGED <<calls, attempts, queries, table_names, foreign_keys, output, panic>>
    /\ UNCHANGED envVars
    /\ UNCHANGED tableVars

LoadForeignKeys_Establish ==
    Establish("load_foreign_keys", "foreign_keys_query", "foreign keys")

\* load_foreign_key_constraints, lines 139-147, and the expect of
\* derive_infer_schema
LoadForeignKeys_Query_Continues ==
    /\ pc = "foreign_keys_query"
    /\ \E c \in open, answer \in FkAnswers(schema_name) :
         /\ queries' = Append(queries,
                [op |-> "load_foreign_key_constraints", conn |-> c.id,
                 answer |-> answer])
         /\ open' = drop(open, c)
         /\ pc' = "expand"
         /\ IF answer.ok
            THEN /\ foreign_keys' = answer.val[1]
                 /\ panic' = panic
            ELSE /\ foreign_keys' = foreign_keys
                 /\ panic' = expect_panic(
                        error_message("foreign keys", database_url, schema_name),
                        answer.err)
    /\ UNCHANGED <<calls, attempts, table_names, output>>
    /\ UNCHANGED envVars
    /\ UNCHANGED tableVars

LoadForeignKeys_Query ==
    /\ pc = "foreign_keys_query"
    /\ \E c \in open, answer \in FkAnswers(schema_name) :
         /\ queries' = Append(queries,
                [op |-> "load_foreign_key_constraints", conn |-> c.id,
                 answer |-> answer])
         /\ open' = drop(open, c)
         /\ IF answer.ok
            THEN /\ foreign_keys' = answer.val[1]
                 /\ pc' = "expand"
                 /\ panic' = panic
            ELSE /\ foreign_keys' = foreign_keys
                 /\ pc' = "panicked"
                 /\ panic' = expect_panic(
                        error_message("foreign keys", database_url, schema_name),
                        answer.err)
    /\ UNCHANGED <<calls, attempts, table_names, output>>
    /\ UNCHANGED envVars
    /\ UNCHANGED tableVars

\* The sanitizer called at lines 25-29; its body is in another file of
\* diesel_infer_schema.
remove_unsafe_foreign_keys_for_codegen(url, fks, safe_tables) ==
    LET known(t) == \E i \in 1..Len(safe_tables) : safe_tables[i] = t
        safe(fk) == /\ fk.child_table # fk.parent_table
                    /\ known(fk.child_table)
                    /\ known(fk.parent_table)
    IN  SelectSeq(fks, safe)

\* The tokens of lines 31-56
tokens(schema, tables, fks) ==
    [schema_mod |-> schema,
     tables |-> [i \in 1..Len(tables) |->
                    [mod_ident |-> <<"infer_", tables[i].name>>,
                     table_name |-> to_string(tables[i])]],
     joinables |-> [i \in 1..Len(fks) |->
                    [child_table |-> fks[i].child_table.name,
                     parent_table |-> fks[i].parent_table.name,
                     foreign_key |-> fks[i].foreign_key]]]

\* derive_infer_schema, lines 25-56
Expand_Unsanitized ==
    /\ pc = "expand"
    /\ output' = <<tokens(schema_name, table_names, foreign_keys)>>
    /\ pc' = "done"
    /\ UNCHANGED <<open, calls, attempts, queries, table_names, foreign_keys, panic>>
    /\ UNCHANGED envVars
    /\ UNCHANGED tableVars

Expand ==
    /\ pc = "expand"
    /\ output' = <<tokens(schema_name, table_names,
                      remove_unsafe_foreign_keys_for_codegen(
                          database_url, foreign_keys, table_names))>>
    /\ pc' = "done"
    /\ UNCHANGED <<open, calls, attempts, queries, table_names, foreign_keys, panic>>
    /\ UNCHANGED envVars
    /\ UNCHANGED tableVars

\* Box<Error>: a message and what it names
BoxError(msg, detail) == [msg |-> msg, detail |-> detail]

TableIdle ==
    /\ tconn = "Sqlite"
    /\ ttable = TableData(NoSchema, "users")
    /\ tcall = "none"
    /\ tanswer = Err("none")
    /\ tresult = Err(BoxError("none", <<>>))
    /\ tqueries = <<>>

Init ==
    /\ features \in FeatureSets
    /\ database_url \in Urls
    /\ schema_name \in SchemaNames
    /\ pc = "load_table_names"
    /\ open = {}
    /\ calls = 0
    /\ attempts = <<>>
    /\ queries = <<>>
    /\ table_names = <<>>
    /\ foreign_keys = <<>>
    /\ output = <<>>
    /\ panic = NoPanic
    /\ TableIdle

Next ==
    \/ LoadTableNames_Establish
    \/ LoadTableNames_Query
    \/ LoadForeignKeys_Establish
    \/ LoadForeignKeys_Query
    \/ Expand

Spec == Init /\ [][Next]_vars

----------------------------------------------------------------------------
(* The per-table wrappers, called on a connection the caller holds.        *)

MaxPkLen == 7
MaxColumns == 2
MaxPrimaryKeyColumns == 5

\* A column is named by its ordinal; a key lists distinct columns, here a
\* run of consecutive ordinals in ascending or descending order.
PkLists ==
    {[i \in 1..n |-> first + i - 1] : first \in 1..MaxPkLen, n \in 0..MaxPkLen}
    \cup {[i \in 1..n |-> first - i + 1] : first \in 1..MaxPkLen, n \in 0..MaxPkLen}

PrimaryKeys == {l \in PkLists : \A i \in 1..Len(l) : l[i] \in 1..MaxPkLen}

\* diesel::result::Error values an adapter query can fail with
NotFound == "NotFound"
DieselErrors == {NotFound, "DatabaseError"}

PkAnswers == {Ok(l) : l \in PrimaryKeys} \cup {Err(e) : e \in DieselErrors}

ColumnInformation(name, nullable) ==
    [column_name |-> name, type_name |-> "int4", nullable |-> nullable]

ColumnLists ==
    {l \in SeqsUpTo({ColumnInformation(n, b) : n \in 1..MaxColumns, b \in BOOLEAN},
                    MaxColumns) :
        \A i, j \in 1..Len(l) : l[i].column_name = l[j].column_name => i = j}

ColumnAnswers == {Ok(l) : l \in ColumnLists} \cup {Err(e) : e \in DieselErrors}

InspectedTables ==
    {TableData(s, n) : s \in SchemaNames, n \in {"users", "posts"}}

\* get_table_data, lines 87-91, on the adapter's answer column_info
get_table_data_propagates(conn, table, column_info) ==
    IF column_info.ok THEN column_info
    ELSE Err(BoxError(column_info.err, <<>>))

get_table_data(conn, table, column_info) ==
    IF ~column_info.ok /\ column_info.err = NotFound
    THEN Err(BoxError("no table exists named", <<to_string(table)>>))
    ELSE IF column_info.ok THEN column_info
         ELSE Err(BoxError(column_info.err, <<>>))

\* get_primary_keys, lines 112-131, on the adapter's answer
get_primary_keys_limit_off_by_one(conn, table, answer) ==
    IF ~answer.ok THEN Err(BoxError(answer.err, <<>>))
    ELSE LET primary_keys == answer.val[1]
         IN  IF primary_keys = <<>>
             THEN Err(BoxError("has no primary key", <<to_string(table)>>))
             ELSE IF Len(primary_keys) >= MaxPrimaryKeyColumns
             THEN Err(BoxError("more than 5 columns in its primary key",
                               <<to_string(table), Len(primary_keys)>>))
             ELSE Ok(primary_keys)

get_primary_keys_truncates(conn, table, answer) ==
    IF ~answer.ok THEN Err(BoxError(answer.err, <<>>))
    ELSE LET primary_keys == answer.val[1]
         IN  IF primary_keys = <<>>
             THEN Err(BoxError("has no primary key", <<to_string(table)>>))
             ELSE IF Len(primary_keys) > MaxPrimaryKeyColumns
             THEN Ok(SubSeq(primary_keys, 1, MaxPrimaryKeyColumns))
             ELSE Ok(primary_keys)

get_primary_keys(conn, table, answer) ==
    IF ~answer.ok THEN Err(BoxError(answer.err, <<>>))
    ELSE LET primary_keys == answer.val[1]
         IN  IF primary_keys = <<>>
             THEN Err(BoxError("has no primary key", <<to_string(table)>>))
             ELSE IF Len(primary_keys) > MaxPrimaryKeyColumns
             THEN Err(BoxError("more than 5 columns in its primary key",
                               <<to_string(table), Len(primary_keys)>>))
             ELSE Ok(primary_keys)

\* A call of get_table_data: the adapter of the connection's backend is
\* queried (lines 79-86) and its answer handled.
GetTableData ==
    /\ tcall = "none"
    /\ \E column_info \in ColumnAnswers :
         /\ tanswer' = column_info
         /\ tqueries' = Append(tqueries, [op |-> "get_table_data", backend |-> tconn])
         /\ tresult' = get_table_data(tconn, ttable, column_info)
    /\ tcall' = "get_table_data"
    /\ UNCHANGED <<tconn, ttable>>
    /\ UNCHANGED runVars
    /\ UNCHANGED envVars

\* A call of get_primary_keys: the adapter is queried (lines 112-119) and
\* its answer handled.
GetPrimaryKeys ==
    /\ tcall = "none"
    /\ \E answer \in PkAnswers :
         /\ tanswer' = answer
         /\ tqueries' = Append(tqueries, [op |-> "get_primary_keys", backend |-> tconn])
         /\ tresult' = get_primary_keys(tconn, ttable, answer)
    /\ tcall' = "get_primary_keys"
    /\ UNCHANGED <<tconn, ttable>>
    /\ UNCHANGED runVars
    /\ UNCHANGED envVars

\* The caller holds one connection, of any backend, and inspects one table.
InitTable ==
    /\ tconn \in Variants
    /\ ttable \in InspectedTables
    /\ tcall = "none"
    /\ tanswer = Err("none")
    /\ tresult = Err(BoxError("none", <<>>))
    /\ tqueries = <<>>
    /\ features = Backends
    /\ database_url = <<>>
    /\ schema_name = ttable.schema
    /\ pc = "table"
    /\ open = {[id |-> 1, backend |-> tconn]}
    /\ calls = 1
    /\ attempts = <<tconn>>
    /\ queries = <<>>
    /\ table_names = <<ttable>>
    /\ foreign_keys = <<>>
    /\ output = <<>>
    /\ panic = NoPanic

NextTable ==
    \/ GetTableData
    \/ GetPrimaryKeys

SpecTable == InitTable /\ [][NextTable]_vars

----------------------------------------------------------------------------
(* Properties of the connection resolver.                                  *)

\* s begins with p, character by character
HasPrefix(s, p) == \A i \in 1..Len(p) : i <= Len(s) /\ s[i] = p[i]

PgString == HasPrefix(database_url, PostgresPrefix) \/ HasPrefix(database_url, PostgresqlPrefix)
MysqlString == HasPrefix(database_url, MysqlPrefix)

\* Conn::establish was called, and on backend v
Selected(v) == attempts # <<>> /\ \A i \in 1..Len(attempts) : attempts[i] = v

\* establish_connection returned an invalid-URL error without connecting
Rejected(message) ==
    /\ attempts = <<>>
    /\ open = {}
    /\ pc = "panicked"
    /\ panic.cause = message

VariantOf(backend) ==
    CASE backend = "sqlite" -> "Sqlite"
      [] backend = "postgres" -> "Pg"
      [] backend = "mysql" -> "Mysql"

\* C1 as stated: in every build a postgres:// or postgresql:// string
\* resolves to Postgres, a mysql:// string to MySQL, and any other string,
\* in a build with one backend, to that backend.
C1_Original ==
    calls >= 1 =>
        /\ PgString => Selected("Pg")
        /\ MysqlString => Selected("Mysql")
        /\ (~PgString /\ ~MysqlString /\ Cardinality(features) = 1)
              => \A b \in features : Selected(VariantOf(b))

\* C1, amended: a postgres:// or postgresql:// string resolves to Postgres
\* when Postgres is compiled in, a mysql:// string to MySQL when MySQL is
\* compiled in; every other string resolves to SQLite when SQLite is
\* compiled in and is otherwise rejected as an invalid URL (the PG message
\* when Postgres is compiled in, else the MySQL one), no connection opened.
C1_Resolves ==
    calls >= 1 =>
        /\ (PgString /\ "postgres" \in features) => Selected("Pg")
        /\ (MysqlString /\ "mysql" \in features) => Selected("Mysql")
        /\ (~(PgString /\ "postgres" \in features)
              /\ ~(MysqlString /\ "mysql" \in features))
              => IF "sqlite" \in features THEN Selected("Sqlite")
                 ELSE IF "postgres" \in features
                      THEN Rejected("not a valid PG database URL")
                      ELSE Rejected("not a valid MySQL database URL")

\* C1 witness: a postgres:// string in a build without Postgres went to
\* SQLite.
C1_Witness ==
    /\ calls >= 1
    /\ PgString
    /\ features = {"sqlite", "mysql"}
    /\ Selected("Sqlite")

\* C2 as stated: with two or more backends compiled in, a string with none
\* of the three prefixes is rejected and no connection is opened.
C2_Original ==
    (calls >= 1 /\ Cardinality(features) >= 2 /\ ~PgString /\ ~MysqlString)
        => /\ pc = "panicked"
           /\ panic.cause \in {"not a valid PG database URL",
                               "not a valid MySQL database URL"}
           /\ attempts = <<>>
           /\ open = {}

\* C2, amended: with two or more backends compiled in, a string with none
\* of the three prefixes is rejected, no connection opened, only when
\* SQLite is not among them (the PG invalid-URL message); when SQLite is
\* compiled in the string is opened as a SQLite connection.
C2_Unrecognized ==
    (calls >= 1 /\ Cardinality(features) >= 2 /\ ~PgString /\ ~MysqlString)
        => IF "sqlite" \in features
           THEN Selected("Sqlite")
           ELSE Rejected("not a valid PG database URL")

\* C2 witness: Postgres and MySQL only, an unprefixed string, rejected.
C2_Witness ==
    /\ calls >= 1
    /\ features = {"postgres", "mysql"}
    /\ ~PgString /\ ~MysqlString
    /\ Rejected("not a valid PG database URL")

----------------------------------------------------------------------------
(* Properties of derive_infer_schema.                                      *)

InList(t, list) == \E i \in 1..Len(list) : list[i] = t

RECURSIVE KeepSafe(_, _)
\* The constraints of fks, in order, that relate two distinct listed tables
KeepSafe(fks, tables) ==
    IF fks = <<>> THEN <<>>
    ELSE LET fk == Head(fks)
             rest == KeepSafe(Tail(fks), tables)
         IN  IF \/ fk.child_table = fk.parent_table
                \/ ~InList(fk.child_table, tables)
                \/ ~InList(fk.parent_table, tables)
             THEN rest
             ELSE <<fk>> \o rest

ListedNames == {table_names[i].name : i \in 1..Len(table_names)}

C6_AbortsOnFirstError ==
    /\ panic # NoPanic =>
         /\ pc = "panicked"
         /\ output = <<>>
         /\ panic.what = "table names" =>
              /\ calls = 1
              /\ foreign_keys = <<>>
              /\ Len(queries) = (IF panic.cause = QueryFailed THEN 1 ELSE 0)
         /\ panic.what = "foreign keys" =>
              /\ calls = 2
              /\ Len(queries) = (IF panic.cause = QueryFailed THEN 2 ELSE 1)
              /\ queries[1].answer.ok
    /\ \A i \in 1..Len(queries) :
         ~queries[i].answer.ok => (i = Len(queries) /\ pc = "panicked" /\ output = <<>>)
    /\ pc = "panicked" => (panic # NoPanic /\ output = <<>>)
    /\ output # <<>> => (pc = "done" /\ panic = NoPanic)

\* C6 witness: the foreign-key query failed after the tables were loaded.
C6_Witness ==
    /\ pc = "panicked"
    /\ panic.what = "foreign keys"
    /\ Len(queries) = 2
    /\ ~queries[2].answer.ok
    /\ table_names # <<>>
    /\ output = <<>>

AfterLoadCall == {"load_table_names", "load_foreign_keys", "expand", "done", "panicked"}

\* C7: outside the two load functions no connection is open, whichever
\* way the function returned, and never more than one is open.
C7_Released ==
    /\ pc \in AfterLoadCall => open = {}
    /\ Cardinality(open) <= 1

\* C7 witness: a connection was opened, its query failed, none is open.
C7_Witness ==
    /\ pc = "panicked"
    /\ Len(attempts) = 2
    /\ Len(queries) = 2
    /\ panic.cause = QueryFailed
    /\ open = {}

\* C8 as stated: a completed run called establish_connection once and
\* read tables and foreign keys through the same connection.
C8_Original ==
    pc = "done" =>
        /\ calls = 1
        /\ queries[1].conn = queries[2].conn

\* C8, amended: a run opens one connection per load step, one after the
\* other: load_table_names and load_foreign_key_constraints each call
\* establish_connection (twice in a completed run), at most one
\* connection is open at a time, and the foreign keys are read through a
\* different connection than the table list.
C8_TwoConnections ==
    /\ pc = "table_names_query" => calls = 1
    /\ pc \in {"foreign_keys_query", "expand", "done"} => calls = 2
    /\ \A c \in open : c.id = calls
    /\ Cardinality(open) <= 1
    /\ Len(queries) = 2 =>
         /\ queries[1].conn = 1
         /\ queries[2].conn = 2

\* C8 witness: a completed run, two connections, and a foreign key whose
\* parent is not in the table list read earlier.
C8_Witness ==
    /\ pc = "done"
    /\ calls = 2
    /\ queries[1].conn # queries[2].conn
    /\ \E i \in 1..Len(foreign_keys) :
         ~InList(foreign_keys[i].parent_table, table_names)

EmptyListed == Len(queries) >= 1 /\ queries[1].answer = Ok(<<>>)

\* C10 as stated: with a schema name given, an empty table list fails the
\* run.
C10_Original ==
    (schema_name # NoSchema /\ EmptyListed)
        => (pc = "panicked" /\ panic.what = "table names")

\* C10, amended: an empty table list is never an error, with or without
\* a schema name: the run goes on to the foreign keys and, unless that
\* fails, produces a schema with no tables and no joinables (inside a
\* module named after the schema when one is given).
C10_EmptyListAccepted ==
    EmptyListed =>
        /\ panic.what # "table names"
        /\ pc \in {"load_foreign_keys", "foreign_keys_query", "expand", "done", "panicked"}
        /\ table_names = <<>>
        /\ pc = "done" =>
             /\ output[1].tables = <<>>
             /\ output[1].joinables = <<>>
             /\ output[1].schema_mod = schema_name

\* C10 witness: a schema name given, no table listed, the run completed.
C10_Witness ==
    /\ schema_name # NoSchema
    /\ EmptyListed
    /\ pc = "done"
    /\ output # <<>>

----------------------------------------------------------------------------
(* Properties of the per-table wrappers.                                   *)

\* C3: a key of 1 to 5 columns is returned as the adapter reported it:
\* same length, same columns, same order, whatever the backend.
C3_KeyReturnedAsReported ==
    (tcall = "get_primary_keys" /\ tanswer.ok
        /\ Len(tanswer.val[1]) >= 1 /\ Len(tanswer.val[1]) <= 5)
    => /\ tresult.ok
       /\ Len(tresult.val[1]) = Len(tanswer.val[1])
       /\ \A i \in 1..Len(tanswer.val[1]) : tresult.val[1][i] = tanswer.val[1][i]

\* C3 witness: a five-column key, in descending ordinal order, returned.
C3_Witness ==
    /\ tcall = "get_primary_keys"
    /\ tconn = "Mysql"
    /\ tanswer.ok
    /\ tanswer.val[1] = <<6, 5, 4, 3, 2>>
    /\ tresult.ok

\* C4: no key reported is an error naming the table, six or more columns
\* is an error naming the table with the count reported; neither returns
\* a key list.
C4_KeyOutsideRangeIsError ==
    (tcall = "get_primary_keys" /\ tanswer.ok)
    => /\ Len(tanswer.val[1]) = 0 =>
            /\ ~tresult.ok
            /\ tresult.val = <<>>
            /\ tresult.err.msg = "has no primary key"
            /\ tresult.err.detail = <<to_string(ttable)>>
       /\ Len(tanswer.val[1]) >= 6 =>
            /\ ~tresult.ok
            /\ tresult.val = <<>>
            /\ tresult.err.msg = "more than 5 columns in its primary key"
            /\ tresult.err.detail = <<to_string(ttable), Len(tanswer.val[1])>>

\* C4 witness: a seven-column key was rejected with its count.
C4_Witness ==
    /\ tcall = "get_primary_keys"
    /\ tanswer.ok
    /\ Len(tanswer.val[1]) = 7
    /\ ~tresult.ok
    /\ tresult.err.detail[2] = 7

\* C9: a not-found answer becomes the error naming the table, after one
\* query; another failure is passed on with the underlying error; a
\* column list is returned as answered.
C9_TableData ==
    tcall = "get_table_data"
    => /\ Len(tqueries) = 1
       /\ tqueries[1] = [op |-> "get_table_data", backend |-> tconn]
       /\ IF tanswer.ok THEN tresult = tanswer
          ELSE /\ ~tresult.ok
               /\ tresult.val = <<>>
               /\ IF tanswer.err = "NotFound"
                  THEN /\ tresult.err.msg = "no table exists named"
                       /\ tresult.err.detail = <<to_string(ttable)>>
                  ELSE /\ tresult.err.msg = tanswer.err
                       /\ tresult.err.detail = <<>>

\* C9 witness: the adapter answered not-found for a schema-qualified table.
C9_Witness ==
    /\ tcall = "get_table_data"
    /\ ~tanswer.ok
    /\ tanswer.err = "NotFound"
    /\ ttable.schema # NoSchema
    /\ tresult.err.msg = "no table exists named"
    /\ Len(tqueries) = 1

====
